---- MODULE Spec2Model ----
(***************************************************************************)
(* Model of src/services/geminiService.ts: the base64 / PCM codec helpers, *)
(* the Gemini client factory, the key-selection handshake, the error and   *)
(* grounding normalisers and generateContent.                              *)
(*                                                                         *)
(* Strings that the code only passes through are TLA+ strings.  Strings    *)
(* that the code builds or searches (error messages) are sequences of      *)
(* fragments, so that concatenation is \o and String.includes is a         *)
(* contiguous-subsequence test.  Base64 text is a sequence of one-letter   *)
(* strings.  A float is a fraction [num, den] with den > 0.                *)
(***************************************************************************)
EXTENDS Integers, Sequences, FiniteSets, TLC

VARIABLES
    env,        \* process.env.API_KEY and window.aistudio of the host
    b64,        \* a caller running encode then decode on a byte buffer
    pcm,        \* a caller running createPcmBlob on a Float32Array
    aud,      \* a call of decodeAudioData
    gc,         \* calls of generateContent and the external client's side
    hae,        \* a call of handleApiError and its detached openSelectKey
    veo,        \* a call of checkAndSelectVeoApiKey
    egc         \* a call of extractGroundingChunks

vars == <<env, b64, pcm, aud, gc, hae, veo, egc>>

\* An optional value (a property that may be undefined) is a sequence of
\* length 0 or 1.
None == << >>
Some(x) == << x >>
IsSome(o) == Len(o) = 1
Opt(S) == {None} \cup {Some(x) : x \in S}

\* The outcome of a call: a returned value or a thrown error.
Ok(v) == [throws |-> FALSE, value |-> v]
Throw(e) == [throws |-> TRUE, value |-> e]

----------------------------------------------------------------------------
(* Bounds of the model *)

\* longest byte buffer of the base64 round trip
MaxBytes == 3
\* longest Float32Array given to createPcmBlob
MaxSamples == 2
\* the sample grid has SubSteps points per 16-bit step
SubSteps == 4
\* longest byte buffer given to decodeAudioData
MaxPcmBytes == 4
\* largest numChannels given to decodeAudioData
MaxChannels == 2
\* longest images list given to generateContent
MaxImages == 2
\* longest groundingChunks list
MaxChunks == 2

----------------------------------------------------------------------------
(* Arithmetic helpers: JavaScript number conversions *)

Abs(x) == IF x < 0 THEN -x ELSE x

RECURSIVE GCD(_, _)
GCD(a, b) == IF b = 0 THEN a ELSE GCD(b, a % b)

\* All sequences over S of length at most n.
SeqUpTo(S, n) == UNION {[1..k -> S] : k \in 0..n}

\* A float as an exact fraction.
Frac(n, d) == [num |-> n, den |-> d]

\* f * k for a positive integer k, kept in lowest terms against k.
FracTimes(f, k) ==
    LET g == GCD(f.den, k) IN Frac(f.num * (k \div g), f.den \div g)

\* Truncation toward zero (the first step of ToInt16).
Truncate(f) ==
    IF f.num >= 0 THEN f.num \div f.den ELSE -((-f.num) \div f.den)

\* Math.round: nearest integer, halves toward +infinity.
Round(f) == (2 * f.num + f.den) \div (2 * f.den)

\* ToInt16 of an integer: modulo 2^16 into -32768..32767.
WrapInt16(n) ==
    LET m == n % 65536 IN IF m >= 32768 THEN m - 65536 ELSE m

\* Storing a number into an Int16Array element.
ToInt16(f) == WrapInt16(Truncate(f))

\* Storing a number into a Uint8Array element.
ToUint8(n) == n % 256

----------------------------------------------------------------------------
(* atob / btoa of the host, on sequences of char codes and base64 letters *)

B64Alphabet ==
    << "A","B","C","D","E","F","G","H","I","J","K","L","M","N","O","P",
       "Q","R","S","T","U","V","W","X","Y","Z","a","b","c","d","e","f",
       "g","h","i","j","k","l","m","n","o","p","q","r","s","t","u","v",
       "w","x","y","z","0","1","2","3","4","5","6","7","8","9","+","/" >>

B64Letters == {B64Alphabet[i] : i \in 1..64}

B64Char(v) == B64Alphabet[v + 1]

B64Value(c) == (CHOOSE i \in 1..64 : B64Alphabet[i] = c) - 1

RECURSIVE btoaGroups(_)
btoaGroups(s) ==
    IF Len(s) = 0 THEN << >>
    ELSE IF Len(s) = 1 THEN
        << B64Char(s[1] \div 4), B64Char((s[1] % 4) * 16), "=", "=" >>
    ELSE IF Len(s) = 2 THEN
        << B64Char(s[1] \div 4),
           B64Char((s[1] % 4) * 16 + s[2] \div 16),
           B64Char((s[2] % 16) * 4), "=" >>
    ELSE
        << B64Char(s[1] \div 4),
           B64Char((s[1] % 4) * 16 + s[2] \div 16),
           B64Char((s[2] % 16) * 4 + s[3] \div 64),
           B64Char(s[3] % 64) >> \o btoaGroups(SubSeq(s, 4, Len(s)))

\* btoa: fails on a code unit above 255, else base64 with padding.
btoa(binary) ==
    IF \E i \in 1..Len(binary) : binary[i] > 255
    THEN Throw("InvalidCharacterError")
    ELSE Ok(btoaGroups(binary))

RECURSIVE atobGroups(_)
atobGroups(t) ==
    IF Len(t) = 0 THEN << >>
    ELSE IF Len(t) = 2 THEN
        << B64Value(t[1]) * 4 + B64Value(t[2]) \div 16 >>
    ELSE IF Len(t) = 3 THEN
        << B64Value(t[1]) * 4 + B64Value(t[2]) \div 16,
           (B64Value(t[2]) % 16) * 16 + B64Value(t[3]) \div 4 >>
    ELSE
        << B64Value(t[1]) * 4 + B64Value(t[2]) \div 16,
           (B64Value(t[2]) % 16) * 16 + B64Value(t[3]) \div 4,
           (B64Value(t[3]) % 4) * 64 + B64Value(t[4]) >>
        \o atobGroups(SubSeq(t, 5, Len(t)))

\* The padding atob removes: one or two trailing "=" of a text whose length
\* is a multiple of 4.
StripPadding(t) ==
    IF Len(t) % 4 = 0 /\ Len(t) > 0 /\ t[Len(t)] = "="
    THEN IF t[Len(t) - 1] = "="
         THEN SubSeq(t, 1, Len(t) - 2)
         ELSE SubSeq(t, 1, Len(t) - 1)
    ELSE t

\* atob (forgiving-base64 decode): fails on a bad length or letter.
atob(text) ==
    LET t == StripPadding(text) IN
    IF Len(t) % 4 = 1 \/ \E i \in 1..Len(t) : t[i] \notin B64Letters
    THEN Throw("InvalidCharacterError")
    ELSE Ok(atobGroups(t))

----------------------------------------------------------------------------
(* decode and encode, lines 6-14 and 35-42 *)

\* String.fromCharCode of one number: its low 16 bits as a code unit.
fromCharCode(n) == n % 65536

decode_dropsHighBit(base64) ==
    LET binaryString == atob(base64) IN
    IF binaryString.throws THEN binaryString
    ELSE Ok([i \in 1..Len(binaryString.value) |-> binaryString.value[i] % 128])

decode(base64) ==
    LET binaryString == atob(base64) IN
    IF binaryString.throws THEN binaryString
    ELSE Ok([i \in 1..Len(binaryString.value) |-> ToUint8(binaryString.value[i])])

encode(bytes) ==
    btoa([i \in 1..Len(bytes) |-> fromCharCode(bytes[i])])

----------------------------------------------------------------------------
(* Typed-array views over one ArrayBuffer (little-endian host) *)

\* new Uint8Array(int16.buffer): two bytes per element, low byte first.
BytesOfInt16(int16) ==
    [k \in 1..(2 * Len(int16)) |->
        LET v == int16[(k + 1) \div 2] % 65536 IN
        IF k % 2 = 1 THEN v % 256 ELSE v \div 256]

\* new Int16Array(data.buffer): fails on an odd byte length.
Int16OfBytes(data) ==
    IF Len(data) % 2 = 1 THEN Throw("RangeError")
    ELSE Ok([k \in 1..(Len(data) \div 2) |->
                WrapInt16(data[2 * k - 1] + 256 * data[2 * k])])

----------------------------------------------------------------------------
(* createPcmBlob, lines 44-54 *)

EncodeScale == 32768

createPcmBlob(data, sampleRate) ==
    LET int16 == [i \in 1..Len(data) |-> ToInt16(FracTimes(data[i], EncodeScale))]
        text  == encode(BytesOfInt16(int16))
    IN IF text.throws THEN text
       ELSE Ok([ data     |-> text.value,
                 mimeType |-> << "audio/pcm;rate=", sampleRate >> ])

----------------------------------------------------------------------------
(* decodeAudioData, lines 16-33 *)

DecodeScale == 32768

\* ctx.createBuffer(numChannels, frameCount, sampleRate): the host converts
\* frameCount to an unsigned long and allocates silent channels.
createBuffer(numChannels, frameCount, sampleRate) ==
    [ numberOfChannels |-> numChannels,
      length           |-> Truncate(frameCount),
      sampleRate       |-> sampleRate,
      channels         |-> [c \in 0..(numChannels - 1) |->
                              [i \in 0..(Truncate(frameCount) - 1) |-> Frac(0, 1)]] ]

\* One sample of the output, line 29.
SampleOf_div32767(v) == Frac(v, 32767)

SampleOf(v) == Frac(v, DecodeScale)

\* Lines 22-32.  The inner loop runs while i < frameCount; a write at an
\* index the channel does not have is ignored by the typed array, so the
\* frames written are those of the allocated buffer, and every one of them
\* is below frameCount.
decodeAudioData(data, sampleRate, numChannels) ==
    LET dataInt16 == Int16OfBytes(data) IN
    IF dataInt16.throws THEN dataInt16
    ELSE
        LET frameCount == Frac(Len(dataInt16.value), numChannels)
            buffer == createBuffer(numChannels, frameCount, sampleRate)
        IN Ok([ buffer EXCEPT !.channels =
                 [c \in 0..(numChannels - 1) |->
                    [i \in 0..(buffer.length - 1) |->
                        SampleOf(dataInt16.value[i * numChannels + c + 1])]] ])

----------------------------------------------------------------------------
(* Callers of the codec: inputs and steps *)

ByteEdges == {0, 127, 128, 255}

\* Byte buffers of the round trip: every byte value 0..255 in the last
\* place, after every prefix of edge bytes, so that each place of a base64
\* group sees every value.
ByteBuffers(n) ==
    {<< >>} \cup
    {p \o << b >> : p \in SeqUpTo(ByteEdges, n - 1), b \in 0..255}

IdleB64 == [pc |-> "off", bytes |-> << >>, text |-> Ok(<< >>), out |-> Ok(<< >>)]

InitB64 ==
    b64 \in {[pc |-> "start", bytes |-> b, text |-> Ok(<< >>), out |-> Ok(<< >>)]
                : b \in ByteBuffers(MaxBytes)}

\* const text = encode(bytes)
Encode ==
    /\ b64.pc = "start"
    /\ b64' = [b64 EXCEPT !.pc = "encoded", !.text = encode(b64.bytes)]
    /\ UNCHANGED <<env, pcm, aud, gc, hae, veo, egc>>

\* const out = decode(text)
Decode ==
    /\ b64.pc = "encoded"
    /\ ~b64.text.throws
    /\ b64' = [b64 EXCEPT !.pc = "decoded", !.out = decode(b64.text.value)]
    /\ UNCHANGED <<env, pcm, aud, gc, hae, veo, egc>>

SampleRates == {16000, 24000}

\* 1.0 on the sample grid.
FullScale == SubSteps * EncodeScale

Near(c) == {q \in (c - SubSteps - 1)..(c + SubSteps + 1) : Abs(q) <= FullScale}

\* Samples in [-1.0, 1.0]: the grid points around -1, -1/2, 0, 1/2 and 1.
Samples ==
    {Frac(q, FullScale) :
        q \in Near(-FullScale) \cup Near(-(FullScale \div 2)) \cup Near(0)
              \cup Near(FullScale \div 2) \cup Near(FullScale)}

IdlePcm == [pc |-> "off", data |-> << >>, sampleRate |-> 0, blob |-> Ok(<< >>)]

InitPcm ==
    pcm \in {[pc |-> "start", data |-> d, sampleRate |-> r, blob |-> Ok(<< >>)]
                : d \in SeqUpTo(Samples, MaxSamples), r \in SampleRates}

\* const blob = createPcmBlob(data, sampleRate)
CreatePcmBlob ==
    /\ pcm.pc = "start"
    /\ pcm' = [pcm EXCEPT !.pc = "done",
                          !.blob = createPcmBlob(pcm.data, pcm.sampleRate)]
    /\ UNCHANGED <<env, b64, aud, gc, hae, veo, egc>>

PcmBytes == {0, 1, 128, 255}

IdleAud ==
    [pc |-> "off", data |-> << >>, sampleRate |-> 0, numChannels |-> 1,
     result |-> Ok(<< >>)]

InitAud ==
    aud \in {[pc |-> "start", data |-> d, sampleRate |-> r, numChannels |-> n,
                result |-> Ok(<< >>)]
                : d \in SeqUpTo(PcmBytes, MaxPcmBytes), r \in SampleRates,
                  n \in 1..MaxChannels}

\* const buffer = await decodeAudioData(data, ctx, sampleRate, numChannels)
DecodeAudioData ==
    /\ aud.pc = "start"
    /\ aud' = [aud EXCEPT
                    !.pc = "done",
                    !.result = decodeAudioData(aud.data, aud.sampleRate,
                                               aud.numChannels)]
    /\ UNCHANGED <<env, b64, pcm, gc, hae, veo, egc>>

----------------------------------------------------------------------------
(* The host environment: process.env and window.aistudio *)

\* A JavaScript string used as a condition: defined and not empty.
Truthy(o) == IsSome(o) /\ o[1] # ""

\* window.aistudio, when defined: which of its two functions exist.
AiStudios == [hasSelectedApiKey : BOOLEAN, openSelectKey : BOOLEAN]

Envs ==
    [ API_KEY  : Opt({"", "key-1"}),
      window   : {TRUE},
      aistudio : Opt(AiStudios) ]
    \cup
    [ API_KEY  : Opt({"", "key-1"}),
      window   : {FALSE},
      aistudio : {None} ]

\* typeof window !== 'undefined' && window.aistudio && window.aistudio.openSelectKey
HasOpenSelectKey(e) ==
    e.window /\ IsSome(e.aistudio) /\ e.aistudio[1].openSelectKey

\* typeof window === 'undefined' || !window.aistudio || !window.aistudio.hasSelectedApiKey
LacksHasSelectedApiKey(e) ==
    ~e.window \/ ~IsSome(e.aistudio) \/ ~e.aistudio[1].hasSelectedApiKey

----------------------------------------------------------------------------
(* getGeminiClient, lines 74-81 *)

getGeminiClient_noCheck(API_KEY) ==
    Ok([apiKey |-> API_KEY])

getGeminiClient(API_KEY) ==
    IF ~Truthy(API_KEY)
    THEN Throw("Gemini API key is not configured.")
    ELSE Ok([apiKey |-> API_KEY[1]])

----------------------------------------------------------------------------
(* generateContent, lines 158-210 *)

Models == {"gemini-2.5-flash"}

Prompts == {"", "t"}

ImageInputs ==
    { [base64Data |-> "QQ==", mimeType |-> "image/png"],
      [base64Data |-> "Qg==", mimeType |-> "image/jpeg"] }

AudioInputs == { [base64Data |-> "Qw==", mimeType |-> "audio/pcm;rate=16000"] }

Tools == {"googleSearch", "googleMaps"}

Geolocations == { [coords |-> [latitude |-> 48, longitude |-> 2]] }

\* The optional config argument, when given.
Configs(n) ==
    [ systemInstruction : Opt({"be brief"}),
      thinkingBudget    : Opt({0, 1024}),
      tools             : Opt({<< t >> : t \in Tools}),
      images            : Opt(SeqUpTo(ImageInputs, n)),
      audio             : Opt(AudioInputs),
      geolocation       : Opt(Geolocations) ]

\* config?.field
Field(config, name) == IF IsSome(config) THEN config[1][name] ELSE None

InlineData(input) ==
    [inlineData |-> [data |-> input.base64Data, mimeType |-> input.mimeType]]

\* Lines 171-182: the parts array.
BuildParts_audioFirst(prompt, config) ==
    LET images == Field(config, "images")
        audio  == Field(config, "audio")
    IN (IF IsSome(audio) THEN << InlineData(audio[1]) >> ELSE << >>)
       \o (IF IsSome(images) /\ Len(images[1]) > 0
           THEN [i \in 1..Len(images[1]) |-> InlineData(images[1][i])]
           ELSE << >>)
       \o (IF prompt # "" THEN << [text |-> prompt] >> ELSE << >>)

BuildParts(prompt, config) ==
    LET images == Field(config, "images")
        audio  == Field(config, "audio")
    IN (IF IsSome(images) /\ Len(images[1]) > 0
        THEN [i \in 1..Len(images[1]) |-> InlineData(images[1][i])]
        ELSE << >>)
       \o (IF IsSome(audio) THEN << InlineData(audio[1]) >> ELSE << >>)
       \o (IF prompt # "" THEN << [text |-> prompt] >> ELSE << >>)

\* config?.tools?.some(tool => tool.googleMaps)
WantsMaps(config) ==
    LET tools == Field(config, "tools") IN
    IsSome(tools) /\ \E i \in 1..Len(tools[1]) : tools[1][i] = "googleMaps"

\* Lines 184-203: the config passed to the client.
BuildConfig(config) ==
    LET budget == Field(config, "thinkingBudget")
        geo    == Field(config, "geolocation")
    IN [ systemInstruction |-> Field(config, "systemInstruction"),
         thinkingConfig    |-> IF IsSome(budget)
                               THEN Some([thinkingBudget |-> budget[1]])
                               ELSE None,
         tools             |-> Field(config, "tools"),
         toolConfig        |->
            IF WantsMaps(config) /\ IsSome(geo)
            THEN Some([retrievalConfig |->
                        [latLng |-> [latitude  |-> geo[1].coords.latitude,
                                     longitude |-> geo[1].coords.longitude]]])
            ELSE None ]

\* What the run up to the await writes to the console.
GenerateLog(config) ==
    IF WantsMaps(config) /\ ~IsSome(Field(config, "geolocation"))
    THEN << "Geolocation not provided for Google Maps grounding." >>
    ELSE << >>

\* Line 205, `return await ...`: the caller's outcome from the client's.
Resume_wrapsRejection(clientOutcome) ==
    IF clientOutcome.throws THEN Throw("generateContent failed") ELSE clientOutcome

Resume(clientOutcome) == clientOutcome

Responses == {"response-1", "response-2"}
Rejections == {"503 unavailable", "Requested entity was not found."}

IdleGc ==
    [ pc |-> "off", clientCalls |-> 0,
      args |-> None, request |-> None, clientOutcome |-> None,
      outcome |-> None, log |-> << >> ]

InitGc == gc = [IdleGc EXCEPT !.pc = "idle"]

\* generateContent(model, prompt, config), up to its await: the client
\* factory, the parts, the config and the one call of the client.
GenerateContent(model, prompt, config) ==
    /\ gc.pc = "idle"
    /\ LET ai == getGeminiClient(env.API_KEY) IN
       IF ai.throws
       THEN gc' = [gc EXCEPT
                     !.pc = "settled",
                     !.args = Some([model |-> model, prompt |-> prompt, config |-> config]),
                     !.outcome = Some(ai),
                     !.log = << "API_KEY is not defined." >>]
       ELSE gc' = [gc EXCEPT
                     !.pc = "awaiting",
                     !.clientCalls = @ + 1,
                     !.args = Some([model |-> model, prompt |-> prompt, config |-> config]),
                     !.request = Some([model    |-> model,
                                       contents |-> BuildParts(prompt, config),
                                       config   |-> BuildConfig(config)]),
                     !.log = GenerateLog(config)]
    /\ UNCHANGED <<env, b64, pcm, aud, hae, veo, egc>>

\* The external client settles its promise; generateContent resumes.
ClientSettles(clientOutcome) ==
    /\ gc.pc = "awaiting"
    /\ gc' = [gc EXCEPT !.pc = "settled",
                        !.clientOutcome = Some(clientOutcome),
                        !.outcome = Some(Resume(clientOutcome))]
    /\ UNCHANGED <<env, b64, pcm, aud, hae, veo, egc>>

ClientResolves == \E r \in Responses : ClientSettles(Ok(r))

ClientRejects == \E e \in Rejections : ClientSettles(Throw(e))

CallGenerateContent ==
    \E model \in Models, prompt \in Prompts, config \in Opt(Configs(MaxImages)) :
        GenerateContent(model, prompt, config)

----------------------------------------------------------------------------
(* handleApiError, lines 102-124 *)

NotFoundText == "Requested entity was not found."

KeyHint ==
    " This might indicate an issue with your selected API key. Please try selecting it again."

\* A message is a sequence of fragments; "" is the empty sequence.
Messages ==
    { << >>,
      << "Quota exceeded." >>,
      << NotFoundText >>,
      << "404: ", NotFoundText, " (veo)" >> }

\* String(status) and String(statusText) inside the template literal.
NumberToString(n) ==
    CASE n = 0 -> "0" [] n = 404 -> "404" [] n = 503 -> "503"

TemplateText(o) == IF IsSome(o) THEN o[1] ELSE "undefined"

ErrorResponses ==
    [ status     : {0, 404},
      statusText : Opt({"Not Found"}),
      data       : Opt([message : Opt({<< NotFoundText >>, << "detail" >>})]) ]

\* The error objects given to handleApiError.
Errors == [message : Opt(Messages), response : Opt(ErrorResponses)]

\* errorMessage.includes(needle), needle being one fragment.
includes_equals(message, needle) == message = << needle >>

includes(message, needle) == \E i \in 1..Len(message) : message[i] = needle

\* Lines 104-112: the message before the key hint.
BaseMessage(error) ==
    IF IsSome(error.message) /\ Len(error.message[1]) > 0
    THEN error.message[1]
    ELSE IF IsSome(error.response) /\ error.response[1].status # 0
    THEN LET response == error.response[1] IN
         << "API Error: ", NumberToString(response.status), " ",
            TemplateText(response.statusText) >>
         \o (IF /\ IsSome(response.data)
                /\ IsSome(response.data[1].message)
                /\ Len(response.data[1].message[1]) > 0
             THEN << " - " >> \o response.data[1].message[1]
             ELSE << >>)
    ELSE << "An unexpected error occurred." >>

\* Lines 115-123: the returned message.
ErrorMessage(error) ==
    IF includes(BaseMessage(error), NotFoundText)
    THEN BaseMessage(error) \o << KeyHint >>
    ELSE BaseMessage(error)

\* Line 119, the catch handler of the detached openSelectKey() promise.
OnOpenSelectKeyRejected_rethrows(h) ==
    [h EXCEPT !.detached = "rejected",
              !.outcome = Some(Throw("openSelectKey failed"))]

OnOpenSelectKeyRejected(h) ==
    [h EXCEPT !.detached = "rejected",
              !.log = Append(@, "Error opening key selection dialog:")]

IdleHae ==
    [ pc |-> "off", error |-> None, outcome |-> None,
      openSelectKeyCalls |-> 0, detached |-> "none", log |-> << >> ]

InitHae == hae = [IdleHae EXCEPT !.pc = "start"]

\* handleApiError(error): runs to its return; the openSelectKey() promise
\* it may start is left pending.
HandleApiError(error) ==
    /\ hae.pc = "start"
    /\ LET reselect == /\ includes(BaseMessage(error), NotFoundText)
                       /\ HasOpenSelectKey(env)
       IN hae' = [hae EXCEPT
                    !.pc = "returned",
                    !.error = Some(error),
                    !.outcome = Some(Ok(ErrorMessage(error))),
                    !.openSelectKeyCalls = IF reselect THEN @ + 1 ELSE @,
                    !.detached = IF reselect THEN "pending" ELSE @,
                    !.log = Append(@, "Gemini API error:")]
    /\ UNCHANGED <<env, b64, pcm, aud, gc, veo, egc>>

CallHandleApiError == \E error \in Errors : HandleApiError(error)

\* The host resolves the detached openSelectKey() promise.
DetachedOpenSelectKeyResolves ==
    /\ hae.detached = "pending"
    /\ hae' = [hae EXCEPT !.detached = "resolved"]
    /\ UNCHANGED <<env, b64, pcm, aud, gc, veo, egc>>

\* The host rejects it: the catch handler runs.
DetachedOpenSelectKeyRejects ==
    /\ hae.detached = "pending"
    /\ hae' = OnOpenSelectKeyRejected(hae)
    /\ UNCHANGED <<env, b64, pcm, aud, gc, veo, egc>>

----------------------------------------------------------------------------
(* checkAndSelectVeoApiKey, lines 84-99 *)

IdleVeo ==
    [ pc |-> "off", outcome |-> None, hasKey |-> None,
      hasSelectedApiKeyCalls |-> 0, openSelectKeyCalls |-> 0, log |-> << >> ]

InitVeo == veo = [IdleVeo EXCEPT !.pc = "start"]

\* Lines 85-90: the guard, then the call of hasSelectedApiKey().
CheckAndSelectVeoApiKey ==
    /\ veo.pc = "start"
    /\ IF LacksHasSelectedApiKey(env)
       THEN veo' = [veo EXCEPT
                      !.pc = "settled",
                      !.outcome = Some(Ok(TRUE)),
                      !.log = Append(@, "window.aistudio not available.")]
       ELSE veo' = [veo EXCEPT
                      !.pc = "awaitHasSelectedApiKey",
                      !.hasSelectedApiKeyCalls = @ + 1]
    /\ UNCHANGED <<env, b64, pcm, aud, gc, hae, egc>>

\* Lines 90-98: hasSelectedApiKey() resolved to hasKey.  Calling an absent
\* openSelectKey is a TypeError, which rejects the async function.
HasSelectedApiKeyResolves(hasKey) ==
    /\ veo.pc = "awaitHasSelectedApiKey"
    /\ IF hasKey
       THEN veo' = [veo EXCEPT !.pc = "settled", !.hasKey = Some(hasKey),
                               !.outcome = Some(Ok(TRUE))]
       ELSE IF ~env.aistudio[1].openSelectKey
       THEN veo' = [veo EXCEPT
                      !.pc = "settled", !.hasKey = Some(hasKey),
                      !.outcome = Some(Throw("TypeError: openSelectKey is not a function")),
                      !.log = Append(@, "Veo API key not selected.")]
       ELSE veo' = [veo EXCEPT
                      !.pc = "awaitOpenSelectKey", !.hasKey = Some(hasKey),
                      !.openSelectKeyCalls = @ + 1,
                      !.log = Append(@, "Veo API key not selected.")]
    /\ UNCHANGED <<env, b64, pcm, aud, gc, hae, egc>>

HasSelectedApiKeySettles == \E hasKey \in BOOLEAN : HasSelectedApiKeyResolves(hasKey)

\* A rejection of an awaited host promise rejects the async function.
HasSelectedApiKeyRejects ==
    /\ veo.pc = "awaitHasSelectedApiKey"
    /\ veo' = [veo EXCEPT !.pc = "settled",
                          !.outcome = Some(Throw("hasSelectedApiKey rejected"))]
    /\ UNCHANGED <<env, b64, pcm, aud, gc, hae, egc>>

\* Lines 93-96: openSelectKey() resolved.
OpenSelectKeyResolves ==
    /\ veo.pc = "awaitOpenSelectKey"
    /\ veo' = [veo EXCEPT !.pc = "settled", !.outcome = Some(Ok(TRUE))]
    /\ UNCHANGED <<env, b64, pcm, aud, gc, hae, egc>>

OpenSelectKeyRejects ==
    /\ veo.pc = "awaitOpenSelectKey"
    /\ veo' = [veo EXCEPT !.pc = "settled",
                          !.outcome = Some(Throw("openSelectKey rejected"))]
    /\ UNCHANGED <<env, b64, pcm, aud, gc, hae, egc>>

----------------------------------------------------------------------------
(* extractGroundingChunks, lines 127-155 *)

\* chunk.web of the SDK: uri and title may each be missing or empty.
WebSources ==
    { [uri |-> None,        title |-> Some("T1")],
      [uri |-> Some("u1"),  title |-> None],
      [uri |-> Some(""),    title |-> Some("T1")],
      [uri |-> Some("u1"),  title |-> Some("")],
      [uri |-> Some("u1"),  title |-> Some("T1")],
      [uri |-> Some("u2"),  title |-> Some("T2")] }

\* A review snippet of the SDK carries more than the two fields kept.
Snippets == { [reviewSnippet |-> "good", uri |-> "r1", title |-> "R"] }

PlaceAnswerSources ==
    { [reviewSnippets |-> None] }
    \cup { [reviewSnippets |-> Some(<< sn >>)] : sn \in Snippets }

MapsSources ==
    { [uri |-> Some("m1"), title |-> None,       placeAnswerSources |-> None],
      [uri |-> Some(""),   title |-> Some("M1"), placeAnswerSources |-> None],
      [uri |-> Some("m1"), title |-> Some("M1"), placeAnswerSources |-> None] }
    \cup
    { [uri |-> Some("m1"), title |-> Some("M1"), placeAnswerSources |-> Some(p)]
        : p \in PlaceAnswerSources }

SourceChunks == [web : Opt(WebSources), maps : Opt(MapsSources)]

\* Candidates without a chunk list.
BareCandidates ==
    { [groundingMetadata |-> None],
      [groundingMetadata |-> Some([groundingChunks |-> None])] }

\* Candidates with a chunk list of at most n chunks.
Candidates(n) ==
    { [groundingMetadata |-> Some([groundingChunks |-> Some(cs)])]
        : cs \in SeqUpTo(SourceChunks, n) }

\* A second candidate, which the code never reads.
OtherCandidate ==
    [groundingMetadata |->
        Some([groundingChunks |->
            Some(<< [web  |-> Some([uri |-> Some("u2"), title |-> Some("T2")]),
                    maps |-> None] >>)])]

GroundingResponses(n) ==
    { [candidates |-> None], [candidates |-> Some(<< >>)] }
    \cup { [candidates |-> Some(<< c >>)] : c \in BareCandidates \cup Candidates(n) }
    \cup { [candidates |-> Some(<< c, OtherCandidate >>)]
                : c \in BareCandidates \cup Candidates(1) }

\* Lines 138-149: the maps object that is pushed.
MapsData(maps) ==
    [ uri   |-> maps.uri[1],
      title |-> maps.title[1],
      placeAnswerSources |->
        IF /\ IsSome(maps.placeAnswerSources)
           /\ IsSome(maps.placeAnswerSources[1].reviewSnippets)
        THEN LET snippets == maps.placeAnswerSources[1].reviewSnippets[1] IN
             Some([reviewSnippets |->
                    [k \in 1..Len(snippets) |->
                        [reviewSnippet |-> snippets[k].reviewSnippet,
                         uri           |-> snippets[k].uri]]])
        ELSE None ]

\* Lines 132-151: one iteration of the loop.
PushChunk_noTitleCheck(groundingChunks, chunk) ==
    IF IsSome(chunk.web) /\ Truthy(chunk.web[1].uri)
    THEN Append(groundingChunks, [web |-> chunk.web[1]])
    ELSE IF /\ IsSome(chunk.maps) /\ Truthy(chunk.maps[1].uri)
            /\ Truthy(chunk.maps[1].title)
    THEN Append(groundingChunks, [maps |-> MapsData(chunk.maps[1])])
    ELSE groundingChunks

PushChunk(groundingChunks, chunk) ==
    IF /\ IsSome(chunk.web) /\ Truthy(chunk.web[1].uri)
       /\ Truthy(chunk.web[1].title)
    THEN Append(groundingChunks, [web |-> chunk.web[1]])
    ELSE IF /\ IsSome(chunk.maps) /\ Truthy(chunk.maps[1].uri)
            /\ Truthy(chunk.maps[1].title)
    THEN Append(groundingChunks, [maps |-> MapsData(chunk.maps[1])])
    ELSE groundingChunks

\* The for-of loop over the first k chunks.
RECURSIVE PushChunks(_, _)
PushChunks(chunks, k) ==
    IF k = 0 THEN << >>
    ELSE PushChunk(PushChunks(chunks, k - 1), chunks[k])

\* response.candidates?.[0]?.groundingMetadata?.groundingChunks
FirstGroundingChunks(response) ==
    IF ~IsSome(response.candidates) THEN None
    ELSE IF Len(response.candidates[1]) = 0 THEN None
    ELSE IF ~IsSome(response.candidates[1][1].groundingMetadata) THEN None
    ELSE response.candidates[1][1].groundingMetadata[1].groundingChunks

extractGroundingChunks(response) ==
    LET chunks == FirstGroundingChunks(response) IN
    IF IsSome(chunks) THEN PushChunks(chunks[1], Len(chunks[1])) ELSE << >>

IdleEgc == [pc |-> "off", response |-> [candidates |-> None], result |-> Ok(<< >>)]

InitEgc ==
    egc \in {[pc |-> "start", response |-> r, result |-> Ok(<< >>)]
                : r \in GroundingResponses(MaxChunks)}

\* const chunks = extractGroundingChunks(response)
ExtractGroundingChunks ==
    /\ egc.pc = "start"
    /\ egc' = [egc EXCEPT !.pc = "done",
                          !.result = Ok(extractGroundingChunks(egc.response))]
    /\ UNCHANGED <<env, b64, pcm, aud, gc, hae, veo>>

----------------------------------------------------------------------------
(* Specifications *)

IdleEnv == [API_KEY |-> None, window |-> FALSE, aistudio |-> None]

\* The whole module: every facility with its inputs, in one host.
Init ==
    /\ env \in Envs
    /\ InitB64 /\ InitPcm /\ InitAud /\ InitGc /\ InitHae /\ InitVeo /\ InitEgc

NextBase64 == Encode \/ Decode

NextPcm == CreatePcmBlob

NextAudio == DecodeAudioData

NextGenerate == CallGenerateContent \/ ClientResolves \/ ClientRejects

NextHost ==
    \/ CallHandleApiError
    \/ DetachedOpenSelectKeyResolves
    \/ DetachedOpenSelectKeyRejects
    \/ CheckAndSelectVeoApiKey
    \/ HasSelectedApiKeySettles
    \/ HasSelectedApiKeyRejects
    \/ OpenSelectKeyResolves
    \/ OpenSelectKeyRejects

NextGrounding == ExtractGroundingChunks

Next ==
    \/ NextBase64 \/ NextPcm \/ NextAudio
    \/ NextGenerate \/ NextHost \/ NextGrounding

Spec == Init /\ [][Next]_vars

\* The base64 round trip alone.
InitBase64 ==
    /\ env = IdleEnv /\ InitB64
    /\ pcm = IdlePcm /\ aud = IdleAud /\ gc = IdleGc /\ hae = IdleHae
    /\ veo = IdleVeo /\ egc = IdleEgc

SpecBase64 == InitBase64 /\ [][NextBase64]_vars

\* createPcmBlob alone.
InitPcmOnly ==
    /\ env = IdleEnv /\ InitPcm
    /\ b64 = IdleB64 /\ aud = IdleAud /\ gc = IdleGc /\ hae = IdleHae
    /\ veo = IdleVeo /\ egc = IdleEgc

SpecPcm == InitPcmOnly /\ [][NextPcm]_vars

\* decodeAudioData alone.
InitAudio ==
    /\ env = IdleEnv /\ InitAud
    /\ b64 = IdleB64 /\ pcm = IdlePcm /\ gc = IdleGc /\ hae = IdleHae
    /\ veo = IdleVeo /\ egc = IdleEgc

SpecAudio == InitAudio /\ [][NextAudio]_vars

\* generateContent against the external client; only API_KEY of the host
\* is read.
InitGenerate ==
    /\ env \in {e \in Envs : ~e.window}
    /\ InitGc
    /\ b64 = IdleB64 /\ pcm = IdlePcm /\ aud = IdleAud /\ hae = IdleHae
    /\ veo = IdleVeo /\ egc = IdleEgc

SpecGenerate == InitGenerate /\ [][NextGenerate]_vars

\* handleApiError and checkAndSelectVeoApiKey in one host; only window and
\* window.aistudio are read.
InitHost ==
    /\ env \in {e \in Envs : e.API_KEY = Some("key-1")}
    /\ InitHae /\ InitVeo
    /\ b64 = IdleB64 /\ pcm = IdlePcm /\ aud = IdleAud /\ gc = IdleGc
    /\ egc = IdleEgc

SpecHost == InitHost /\ [][NextHost]_vars

\* extractGroundingChunks alone.
InitGrounding ==
    /\ env = IdleEnv /\ InitEgc
    /\ b64 = IdleB64 /\ pcm = IdlePcm /\ aud = IdleAud /\ gc = IdleGc
    /\ hae = IdleHae /\ veo = IdleVeo

SpecGrounding == InitGrounding /\ [][NextGrounding]_vars

----------------------------------------------------------------------------
(* Properties of the codec *)

\* C8: decode(encode(b)) has the length of b and the same byte at every
\* index, for every byte buffer b, the empty one included.
C8_RoundTrip ==
    b64.pc = "decoded" =>
        /\ ~b64.out.throws
        /\ Len(b64.out.value) = Len(b64.bytes)
        /\ \A i \in 1..Len(b64.bytes) : b64.out.value[i] = b64.bytes[i]

\* A three-byte buffer ending in 255 has gone through encode and decode.
C8_Witness ==
    /\ b64.pc = "decoded"
    /\ b64.bytes = << 0, 128, 255 >>
    /\ b64.text.value = << "A", "I", "D", "/" >>

\* The 16-bit signed little-endian integer at index k (from 0) of a byte
\* sequence.
Int16LEAt(bytes, k) ==
    LET u == bytes[2 * k + 1] + 256 * bytes[2 * k + 2]
    IN IF u >= 32768 THEN u - 65536 ELSE u

C7_InverseScaling ==
    pcm.pc = "done" =>
        /\ ~pcm.blob.throws
        /\ LET bytes == decode(pcm.blob.value.data) IN
           /\ ~bytes.throws
           /\ Len(bytes.value) = 2 * Len(pcm.data)
           /\ \A i \in 1..Len(pcm.data) :
                Abs(Int16LEAt(bytes.value, i - 1)
                    - Round(FracTimes(pcm.data[i], 32768))) <= 1

----------------------------------------------------------------------------
(* Properties of generateContent *)

\* config.images of the call in flight, or no images.
ArgImages ==
    LET images == Field(gc.args[1].config, "images")
    IN IF IsSome(images) THEN images[1] ELSE << >>

ArgAudio == Field(gc.args[1].config, "audio")

\* The parts of the request are the images in the caller's order, then the
\* audio if any, then `tail`.
PartsAre(contents, tail) ==
    LET n == Len(ArgImages)
        a == Len(ArgAudio)
    IN /\ Len(contents) = n + a + Len(tail)
       /\ \A i \in 1..n :
            contents[i] = [inlineData |-> [data     |-> ArgImages[i].base64Data,
                                            mimeType |-> ArgImages[i].mimeType]]
       /\ a = 1 =>
            contents[n + 1] = [inlineData |-> [data     |-> ArgAudio[1].base64Data,
                                                mimeType |-> ArgAudio[1].mimeType]]
       /\ \A i \in 1..Len(tail) : contents[n + a + i] = tail[i]

\* C1 as stated: for every input, the parts passed to the client are one
\* inlineData part per image in order, the audio part if audio was given,
\* then the part {text: prompt}.
C1_PartsAlwaysEndWithText ==
    IsSome(gc.request) =>
        PartsAre(gc.request[1].contents, << [text |-> gc.args[1].prompt] >>)

\* C1 amended: the same order, the text part being present exactly when the
\* prompt is not the empty string.
C1_PartsInFixedOrder ==
    IsSome(gc.request) =>
        PartsAre(gc.request[1].contents,
                 IF gc.args[1].prompt = ""
                 THEN << >>
                 ELSE << [text |-> gc.args[1].prompt] >>)

\* Two distinct images, audio and a prompt have been passed to the client.
C1_Witness ==
    /\ IsSome(gc.request)
    /\ Len(ArgImages) = 2
    /\ ArgImages[1] # ArgImages[2]
    /\ IsSome(ArgAudio)
    /\ gc.args[1].prompt = "t"
    /\ Len(gc.request[1].contents) = 4

\* process.env.API_KEY is missing (or empty).
KeyMissing == ~IsSome(env.API_KEY) \/ env.API_KEY[1] = ""

\* C3: with API_KEY missing, the client's generateContent is never called,
\* and a generateContent call has failed with the configuration error.
C3_NoClientCallWithoutKey ==
    KeyMissing =>
        /\ gc.clientCalls = 0
        /\ ~IsSome(gc.request)
        /\ gc.pc # "awaiting"
        /\ gc.pc = "settled" =>
              /\ gc.outcome[1].throws
              /\ gc.outcome[1].value = "Gemini API key is not configured."

\* generateContent was called with images and audio and no API_KEY.
C3_Witness ==
    /\ ~IsSome(env.API_KEY)
    /\ gc.pc = "settled"
    /\ Len(ArgImages) = 2
    /\ IsSome(ArgAudio)

\* C4: with the key configured, a generateContent call makes exactly one
\* call of the client, none after it has settled, and the caller's outcome
\* is the client's outcome, value or rejection, unchanged.
C4_OneCallOutcomePassedThrough ==
    ~KeyMissing =>
        /\ gc.pc = "idle" => gc.clientCalls = 0
        /\ gc.pc = "awaiting" => gc.clientCalls = 1 /\ ~IsSome(gc.outcome)
        /\ gc.pc = "settled" =>
              /\ gc.clientCalls = 1
              /\ IsSome(gc.clientOutcome)
              /\ gc.outcome[1].throws = gc.clientOutcome[1].throws
              /\ gc.outcome[1].value = gc.clientOutcome[1].value

\* The client has rejected and generateContent has settled.
C4_Witness ==
    /\ ~KeyMissing
    /\ gc.pc = "settled"
    /\ gc.clientOutcome[1].throws
    /\ gc.clientOutcome[1].value = "503 unavailable"

----------------------------------------------------------------------------
(* Properties of handleApiError and checkAndSelectVeoApiKey *)

\* The fragment occurs somewhere in the message.
Contains(message, fragment) ==
    {i \in DOMAIN message : message[i] = fragment} # {}

\* The returned message of the handleApiError call.
Returned == hae.outcome[1].value

\* The call was given exactly {message: "Requested entity was not found."}.
GivenNotFoundError ==
    /\ hae.pc = "returned"
    /\ hae.error[1].message = Some(<< NotFoundText >>)

\* The message before any hint does not contain the not-found text.
GivenOtherError ==
    /\ hae.pc = "returned"
    /\ ~Contains(BaseMessage(hae.error[1]), NotFoundText)

\* C2 as stated: for the not-found error the returned message contains the
\* original text and the hint and openSelectKey is called exactly once; for
\* a message without that text there is no call and no hint.
C2_HintAndExactlyOneCall ==
    /\ GivenNotFoundError =>
          /\ ~hae.outcome[1].throws
          /\ Contains(Returned, NotFoundText)
          /\ Contains(Returned, KeyHint)
          /\ hae.openSelectKeyCalls = 1
    /\ GivenOtherError =>
          /\ ~Contains(Returned, KeyHint)
          /\ hae.openSelectKeyCalls = 0

\* C2 amended: as stated, except that openSelectKey is called exactly once
\* when the host provides it and not at all when the host does not.
C2_HintAndOneCallWhenProvided ==
    /\ hae.pc = "returned" /\ Contains(BaseMessage(hae.error[1]), NotFoundText) =>
          /\ ~hae.outcome[1].throws
          /\ Returned = BaseMessage(hae.error[1]) \o << KeyHint >>
          /\ Contains(Returned, NotFoundText)
          /\ hae.openSelectKeyCalls = IF HasOpenSelectKey(env) THEN 1 ELSE 0
    /\ GivenOtherError =>
          /\ ~hae.outcome[1].throws
          /\ Returned = BaseMessage(hae.error[1])
          /\ ~Contains(Returned, KeyHint)
          /\ hae.openSelectKeyCalls = 0

\* The not-found text arrived inside a longer message, in a host that
\* provides openSelectKey, and the dialog was triggered once.
C2_Witness ==
    /\ hae.pc = "returned"
    /\ hae.error[1].message = Some(<< "404: ", NotFoundText, " (veo)" >>)
    /\ HasOpenSelectKey(env)
    /\ hae.openSelectKeyCalls = 1
    /\ Contains(Returned, KeyHint)

\* C5: handleApiError has returned whenever its openSelectKey() promise is
\* pending or settled; once returned, its outcome is never changed by the
\* promise resolving or rejecting; and a rejection only adds a console line.
C5_KeyReselectionDetached ==
    [][ /\ hae'.detached # "none" =>
              /\ hae'.pc = "returned"
              /\ ~hae'.outcome[1].throws
              /\ hae'.outcome[1].value = ErrorMessage(hae'.error[1])
        /\ hae.pc = "returned" =>
              /\ hae'.pc = "returned"
              /\ hae'.outcome = hae.outcome
        /\ (hae.detached = "pending" /\ hae'.detached = "rejected") =>
              hae'.log = Append(hae.log, "Error opening key selection dialog:")
      ]_vars

\* The detached openSelectKey() promise has rejected after the return.
C5_Witness ==
    /\ hae.pc = "returned"
    /\ hae.detached = "rejected"
    /\ Len(hae.log) = 2

\* window.aistudio lacks one of the two key-selection functions (or is
\* absent altogether).
LacksAKeyFunction ==
    \/ ~env.window
    \/ ~IsSome(env.aistudio)
    \/ ~env.aistudio[1].hasSelectedApiKey
    \/ ~env.aistudio[1].openSelectKey

\* One of the host's own promises rejected, which the async function
\* passes on.
HostRejected ==
    /\ veo.outcome[1].throws
    /\ veo.outcome[1].value \in {"hasSelectedApiKey rejected", "openSelectKey rejected"}

\* C10: whenever hasSelectedApiKey or openSelectKey is absent,
\* checkAndSelectVeoApiKey resolves to true and does not raise; when both
\* are present it resolves to true, having called openSelectKey at most once
\* and only after hasSelectedApiKey resolved false.  (A rejection by the
\* host's own functions is left aside: the claim does not speak of it.)
C10_AssumesSuccessWithoutHost ==
    (veo.pc = "settled" /\ ~HostRejected) =>
        /\ ~veo.outcome[1].throws
        /\ veo.outcome[1].value = TRUE
        /\ LacksAKeyFunction => veo.openSelectKeyCalls = 0
        /\ veo.openSelectKeyCalls <= 1
        /\ veo.openSelectKeyCalls = 1 => veo.hasKey = Some(FALSE)

----------------------------------------------------------------------------
(* Properties of extractGroundingChunks *)

\* A string property that is present and not empty.
NonEmpty(o) == o # None /\ o # Some("")

\* The first candidate's chunk list, or no chunks.
SourceList ==
    LET r == egc.response IN
    IF \/ r.candidates = None
       \/ Len(r.candidates[1]) = 0
       \/ r.candidates[1][1].groundingMetadata = None
       \/ r.candidates[1][1].groundingMetadata[1].groundingChunks = None
    THEN << >>
    ELSE r.candidates[1][1].groundingMetadata[1].groundingChunks[1]

IsWebChunk(chunk) ==
    chunk.web # None /\ NonEmpty(chunk.web[1].uri) /\ NonEmpty(chunk.web[1].title)

IsMapsChunk(chunk) ==
    /\ ~IsWebChunk(chunk)
    /\ chunk.maps # None
    /\ NonEmpty(chunk.maps[1].uri) /\ NonEmpty(chunk.maps[1].title)

KeptIndices == {i \in DOMAIN SourceList : IsWebChunk(SourceList[i]) \/ IsMapsChunk(SourceList[i])}

\* The place in the output of the kept source chunk i.
PlaceOf(i) == Cardinality({j \in KeptIndices : j <= i})

\* C6: the result is the order-preserving filter of the first candidate's
\* chunk list: a chunk with non-empty web uri and title comes out as a web
\* chunk, otherwise one with non-empty maps uri and title as a maps chunk,
\* otherwise it is dropped; kept chunks keep their order, duplicates stay,
\* and a response without candidates or metadata gives the empty sequence.
C6_OrderPreservingFilter ==
    egc.pc = "done" =>
        /\ ~egc.result.throws
        /\ Len(egc.result.value) = Cardinality(KeptIndices)
        /\ \A i \in KeptIndices :
              LET out == egc.result.value[PlaceOf(i)]
                  src == SourceList[i]
              IN IF IsWebChunk(src)
                 THEN /\ DOMAIN out = {"web"}
                      /\ out.web = src.web[1]
                 ELSE /\ DOMAIN out = {"maps"}
                      /\ out.maps.uri = src.maps[1].uri[1]
                      /\ out.maps.title = src.maps[1].title[1]

\* A list of a dropped chunk (web without title, maps without uri) followed
\* by a kept web chunk has been filtered to the one kept chunk.
C6_Witness ==
    /\ egc.pc = "done"
    /\ Len(SourceList) = 2
    /\ KeptIndices = {2}
    /\ SourceList[1].web # None /\ SourceList[1].web[1].title = None
    /\ Len(egc.result.value) = 1
    /\ DOMAIN egc.result.value[1] = {"web"}

====
